---- MODULE Spec2Model ----
(***************************************************************************)
(* A model of old-designs/interface.py: the NeedlePositions matrix with    *)
(* its completion log and row-completed observers, and the ColorAdapter    *)
(* progress view on top of it.                                             *)
(*                                                                         *)
(* Python values are modelled as follows.  A list is a sequence; list      *)
(* positions are 0-based in the source and 1-based here, so the source's   *)
(* rows[i] is _rows[i + 1].  An exception is a record naming its class,    *)
(* the message template it was formatted from and the format arguments.    *)
(* An observer is arbitrary caller code: while it runs it may call any     *)
(* method of the object, and it either returns or raises.                  *)
(***************************************************************************)
EXTENDS Integers, Sequences, FiniteSets, TLC

VARIABLES
    pc,                 \* "new": before NeedlePositions(...); "ready"; "failed"
    arg_rows,           \* the rows argument of the constructor
    arg_machine,        \* the machine argument of the constructor
    _rows,              \* self._rows
    _machine,           \* self._machine
    _completed_rows,    \* self._completed_rows
    _on_row_completed,  \* self._on_row_completed
    error,              \* what the constructor raised (NoError if nothing)
    stack,              \* the running row_completed calls, outermost first
    ret,                \* what the last finished call returned or raised
    calls,              \* history: the row_completed calls, in call order
    notified,           \* history: the observer invocations of the running
                        \* (or last) outermost row_completed call, in order
    adapter,            \* the ColorAdapter built on the object, if any
    registered,         \* history: the callables on_row_completed was called
                        \* with, in call order
    held                \* the list a caller got from completed_row_indices
                        \* and kept, if any

vars == <<pc, arg_rows, arg_machine, _rows, _machine, _completed_rows,
          _on_row_completed, error, stack, ret, calls, notified, adapter,
          registered, held>>

object == <<_rows, _machine, _completed_rows, _on_row_completed>>

----------------------------------------------------------------------------
(* Bounds of the model *)

MaxRows == 3          \* rows of a pattern of a session
MaxCheckRows == 2     \* rows of a pattern given to the constructor in SpecCheck
MaxCalls == 2         \* row_completed calls of a run
MaxObservers == 3     \* registrations of a run of SpecDispatch
MaxWatchers == 1      \* registrations of a run of Spec
MaxHeld == 3          \* items of a list a caller keeps and appends to
MaxListeners == 2     \* on_row_change registrations of a run

----------------------------------------------------------------------------
(* Values *)

Range(s) == {s[i] : i \in 1..Len(s)}

IsPrefix(s, t) == Len(s) <= Len(t) /\ \A i \in 1..Len(s) : s[i] = t[i]

Symbols == {"A", "B", "C"}

MachineProfile(n) == [needle_positions |-> <<"A", "B">>, number_of_needles |-> n]

ScenarioMachine == MachineProfile(2)

RowLengths == 0..3

AllRows == UNION {[1..n -> Symbols] : n \in RowLengths}

AllPatterns == UNION {[1..n -> AllRows] : n \in 0..MaxCheckRows}

_NEEDLE_POSITION_ERROR_MESSAGE ==
    "Needle position in row {} at index {} is {} but one of {} was expected."

_ROW_LENGTH_ERROR_MESSAGE == "The length of row {} is {} but {} is expected."

NoError == [type |-> "None", template |-> "", args |-> <<>>]

ValueError(template, args) ==
    [type |-> "ValueError", template |-> template, args |-> args]

----------------------------------------------------------------------------
(* NeedlePositions.check *)

\* check_needles counting the needles from 1
RECURSIVE check_needles_from_one(_, _, _, _)
check_needles_from_one(row, row_index, needle_index, expected_positions) ==
    IF needle_index >= Len(row) THEN NoError
    ELSE IF row[needle_index + 1] \notin Range(expected_positions)
         THEN ValueError(_NEEDLE_POSITION_ERROR_MESSAGE,
                         <<row_index, needle_index + 1, row[needle_index + 1],
                           expected_positions>>)
         ELSE check_needles_from_one(row, row_index, needle_index + 1,
                                     expected_positions)

RECURSIVE check_needles(_, _, _, _)
check_needles(row, row_index, needle_index, expected_positions) ==
    IF needle_index >= Len(row) THEN NoError
    ELSE IF row[needle_index + 1] \notin Range(expected_positions)
         THEN ValueError(_NEEDLE_POSITION_ERROR_MESSAGE,
                         <<row_index, needle_index, row[needle_index + 1],
                           expected_positions>>)
         ELSE check_needles(row, row_index, needle_index + 1, expected_positions)

\* check that looks at the needles of a row before it looks at its length
RECURSIVE check_rows_needles_first(_, _, _)
check_rows_needles_first(rows, row_index, machine) ==
    IF row_index >= Len(rows) THEN NoError
    ELSE LET row == rows[row_index + 1]
             expected_row_length == machine.number_of_needles
             e == check_needles(row, row_index, 0, machine.needle_positions)
         IN  IF e # NoError THEN e
             ELSE IF Len(row) # expected_row_length
             THEN ValueError(_ROW_LENGTH_ERROR_MESSAGE,
                             <<row_index, Len(row), expected_row_length>>)
             ELSE check_rows_needles_first(rows, row_index + 1, machine)

RECURSIVE check_rows(_, _, _)
check_rows(rows, row_index, machine) ==
    IF row_index >= Len(rows) THEN NoError
    ELSE LET row == rows[row_index + 1]
             expected_row_length == machine.number_of_needles
         IN  IF Len(row) # expected_row_length
             THEN ValueError(_ROW_LENGTH_ERROR_MESSAGE,
                             <<row_index, Len(row), expected_row_length>>)
             ELSE LET e == check_needles(row, row_index, 0,
                                         machine.needle_positions)
                  IN  IF e # NoError THEN e
                      ELSE check_rows(rows, row_index + 1, machine)

\* check that looks at the first row only
check_first_row(rows, machine) ==
    check_rows(SubSeq(rows, 1, IF Len(rows) > 0 THEN 1 ELSE 0), 0, machine)

check(rows, machine) == check_rows(rows, 0, machine)

----------------------------------------------------------------------------
(* NeedlePositions.__init__ *)

NoMachine == [needle_positions |-> <<>>, number_of_needles |-> 0]

NoRet == [op |-> "none", call |-> 0, outcome |-> "none", value |-> <<>>]

Returned(op, call, value) ==
    [op |-> op, call |-> call, outcome |-> "returned", value |-> value]

Raised(op, call, e) ==
    [op |-> op, call |-> call, outcome |-> "raised", value |-> <<e>>]

NoSnapshot == [kind |-> "none", value |-> <<>>]

NoAdapter == [built |-> FALSE, color_rows |-> <<>>, _on_row_change |-> <<>>]

NewNeedlePositions ==
    /\ pc = "new"
    /\ _rows' = arg_rows
    /\ _machine' = arg_machine
    /\ _completed_rows' = <<>>
    /\ _on_row_completed' = <<>>
    /\ error' = check(arg_rows, arg_machine)
    /\ pc' = IF error' = NoError THEN "ready" ELSE "failed"
    /\ UNCHANGED <<arg_rows, arg_machine, stack, ret, calls, notified, adapter,
                   registered, held>>

----------------------------------------------------------------------------
(* The callers: the code that holds the object, and the observers' code *)

\* The callable a ColorAdapter registers with on_row_completed: its own
\* handler of row completions.
AdapterHandler == 0

\* The callables a caller registers.  They are interchangeable (each may do
\* anything when called), so they are numbered in the order of their first
\* registration: a caller registers one that is registered already, or the
\* next new one.
Registrable(observers) ==
    1..(Cardinality(Range(observers) \ {AdapterHandler}) + 1)

\* The observers of the list that callers registered.
Watchers(observers) == SelectSeq(observers, LAMBDA c : c # AdapterHandler)

Exceptions == {"E1", "E2"}

\* The row indices callers report: below the pattern, its first row, the last
\* row of the longest pattern, and far beyond every pattern.
RowIndices == {-1, 0, MaxRows - 1, 99}

Top == stack[Len(stack)]

Pop(stk) == SubSeq(stk, 1, Len(stk) - 1)

AtTopLevel == pc = "ready" /\ stack = <<>>

\* Some caller code is running: the holder of the object, or an observer
\* that was invoked and has not finished yet.
CallerRuns == pc = "ready" /\ (IF stack = <<>> THEN TRUE ELSE Top.in_callback)

----------------------------------------------------------------------------
(* NeedlePositions.row_completed *)

\* append that keeps the log free of duplicates
appended_once(completed_rows, index) ==
    IF index \in Range(completed_rows) THEN completed_rows
    ELSE Append(completed_rows, index)

\* append that drops the indices outside the pattern
appended_in_pattern(completed_rows, index) ==
    IF index \in 0..(Len(_rows) - 1) THEN Append(completed_rows, index)
    ELSE completed_rows

\* self._completed_rows.append(index)
appended(completed_rows, index) == Append(completed_rows, index)

\* the observers taken from the end of the list
next_observer_reversed(observers, i) == observers[Len(observers) - i]

\* the observer the for statement fetches when i were fetched before
next_observer(observers, i) == observers[i + 1]

\* row_completed(index): what the observer is called with
observer_argument(frame) == frame.index

\* completed_row_indices: a copy of the list
completed_row_indices(completed_rows) ==
    [i \in 1..Len(completed_rows) |-> completed_rows[i]]

\* row_completed with the call of the observer in try/except: pass
row_completed_swallows(stk, e) ==
    [stack |-> [stk EXCEPT ![Len(stk)].in_callback = FALSE], raised |-> <<>>]

\* An observer raised e: no try statement surrounds the call, so the frame of
\* row_completed is left and e itself reaches the caller of row_completed.
row_completed_on_exception(stk, e) == [stack |-> Pop(stk), raised |-> <<e>>]

\* The histories describe the running outermost row_completed call and the
\* calls nested in it: when the next outermost call starts, the invocations of
\* the earlier ones are dropped and their outcomes are marked as past.
Forgotten(history) ==
    [c \in 1..Len(history) |-> [history[c] EXCEPT !.outcome = "past"]]

\* Who calls row_completed: the row_completed call whose observer is running
\* and the number of observers that call has fetched, or 0 and 0 for the
\* holder of the object.
Caller ==
    IF stack = <<>> THEN [call |-> 0, i |-> 0]
    ELSE IF Top.of = "ColorAdapter"
         THEN [call |-> Top.call, i |-> stack[Len(stack) - 1].i]
         ELSE [call |-> Top.call, i |-> Top.i]

\* row_completed that refuses the indices outside the pattern
row_completed_checked(index) ==
    /\ CallerRuns
    /\ calls' = Append(IF stack = <<>> THEN Forgotten(calls) ELSE calls,
                       [index |-> index,
                        outcome |-> IF index \in 0..(Len(_rows) - 1)
                                    THEN "running" ELSE "IndexError",
                        parent |-> Caller.call, at |-> Caller.i])
    /\ notified' = IF stack = <<>> THEN <<>> ELSE notified
    /\ IF index \in 0..(Len(_rows) - 1)
       THEN /\ _completed_rows' = Append(_completed_rows, index)
            /\ stack' = Append(stack, [index |-> index, i |-> 0,
                                       in_callback |-> FALSE,
                                       call |-> Len(calls) + 1, n |-> 0,
                                       of |-> "NeedlePositions"])
            /\ ret' = NoRet
       ELSE /\ _completed_rows' = _completed_rows
            /\ stack' = stack
            /\ ret' = Raised("row_completed", Len(calls) + 1, "IndexError")
    /\ UNCHANGED <<pc, arg_rows, arg_machine, _rows, _machine,
                   _on_row_completed, error, adapter, registered, held>>

\* Every row of the pattern is in the log.
AllRowsCompleted ==
    /\ pc = "ready"
    /\ \A r \in 0..(Len(_rows) - 1) : r \in Range(_completed_rows)

\* row_completed that accepts no completion once every row is completed
row_completed_terminal(index) ==
    /\ CallerRuns
    /\ calls' = Append(IF stack = <<>> THEN Forgotten(calls) ELSE calls,
                       [index |-> index,
                        outcome |-> IF AllRowsCompleted
                                    THEN "StateError" ELSE "running",
                        parent |-> Caller.call, at |-> Caller.i])
    /\ notified' = IF stack = <<>> THEN <<>> ELSE notified
    /\ IF AllRowsCompleted
       THEN /\ _completed_rows' = _completed_rows
            /\ stack' = stack
            /\ ret' = Raised("row_completed", Len(calls) + 1, "StateError")
       ELSE /\ _completed_rows' = appended(_completed_rows, index)
            /\ stack' = Append(stack, [index |-> index, i |-> 0,
                                       in_callback |-> FALSE,
                                       call |-> Len(calls) + 1, n |-> 0,
                                       of |-> "NeedlePositions"])
            /\ ret' = NoRet
    /\ UNCHANGED <<pc, arg_rows, arg_machine, _rows, _machine,
                   _on_row_completed, error, adapter, registered, held>>

\* row_completed that queues the dispatch of a call made by an observer until
\* the running dispatches are through
row_completed_deferred(index) ==
    /\ CallerRuns
    /\ _completed_rows' = appended(_completed_rows, index)
    /\ calls' = Append(IF stack = <<>> THEN Forgotten(calls) ELSE calls,
                       [index |-> index, outcome |-> "running",
                        parent |-> Caller.call, at |-> Caller.i])
    /\ notified' = IF stack = <<>> THEN <<>> ELSE notified
    /\ stack' = <<[index |-> index, i |-> 0, in_callback |-> FALSE,
                   call |-> Len(calls) + 1, n |-> 0,
                   of |-> "NeedlePositions"]>> \o stack
    /\ ret' = NoRet
    /\ UNCHANGED <<pc, arg_rows, arg_machine, _rows, _machine,
                   _on_row_completed, error, adapter, registered, held>>

row_completed(index) ==
    /\ CallerRuns
    /\ _completed_rows' = appended(_completed_rows, index)
    /\ calls' = Append(IF stack = <<>> THEN Forgotten(calls) ELSE calls,
                       [index |-> index, outcome |-> "running",
                        parent |-> Caller.call, at |-> Caller.i])
    /\ notified' = IF stack = <<>> THEN <<>> ELSE notified
    /\ stack' = Append(stack, [index |-> index, i |-> 0, in_callback |-> FALSE,
                               call |-> Len(calls) + 1, n |-> 0,
                               of |-> "NeedlePositions"])
    /\ ret' = NoRet
    /\ UNCHANGED <<pc, arg_rows, arg_machine, _rows, _machine,
                   _on_row_completed, error, adapter, registered, held>>

\* The list a running loop goes through: the observers of the
\* NeedlePositions, or those of the ColorAdapter when its handler runs.
ObserversOf(frame) ==
    IF frame.of = "ColorAdapter" THEN adapter._on_row_change
    ELSE _on_row_completed

\* the handler that passes the number of completed rows on
rebroadcast_count(frame) ==
    [index |-> Len(_completed_rows), i |-> 0, in_callback |-> FALSE,
     call |-> frame.call, n |-> 0, of |-> "ColorAdapter"]

\* The handler of the ColorAdapter, called with the index of a completed
\* row: it calls the observers of on_row_change with that index.
rebroadcast(frame) ==
    [index |-> observer_argument(frame), i |-> 0, in_callback |-> FALSE,
     call |-> frame.call, n |-> 0, of |-> "ColorAdapter"]

\* for row_completed in self._on_row_completed: row_completed(index)
\* The observer is caller code, or the handler of the ColorAdapter, which
\* starts its own loop.
NotifyObserver ==
    /\ pc = "ready" /\ stack # <<>>
    /\ ~Top.in_callback
    /\ Top.i < Len(ObserversOf(Top))
    /\ notified' = Append(notified,
            [observer |-> next_observer(ObserversOf(Top), Top.i),
             argument |-> observer_argument(Top),
             seen |-> completed_row_indices(_completed_rows),
             call |-> Top.call,
             result |-> "running",
             by |-> Top.of,
             rank |-> Top.i + 1])
    /\ LET called == [stack EXCEPT ![Len(stack)] =
                        [@ EXCEPT !.i = @ + 1, !.in_callback = TRUE,
                                  !.n = Len(notified) + 1]]
       IN  stack' = IF /\ Top.of = "NeedlePositions"
                       /\ next_observer(ObserversOf(Top), Top.i) = AdapterHandler
                    THEN Append(called, rebroadcast(Top))
                    ELSE called
    /\ UNCHANGED <<pc, arg_rows, arg_machine, object, error, ret, calls, adapter,
                   registered, held>>

ObserverReturns ==
    /\ pc = "ready" /\ stack # <<>>
    /\ Top.in_callback
    /\ notified' = [notified EXCEPT ![Top.n].result = "returned"]
    /\ stack' = [stack EXCEPT ![Len(stack)].in_callback = FALSE]
    /\ UNCHANGED <<pc, arg_rows, arg_machine, object, error, ret, calls, adapter,
                   registered, held>>

\* row_completed that takes the index out of the log again when an observer
\* raises
ObserverRaises_rollback(e) ==
    /\ pc = "ready" /\ stack # <<>>
    /\ Top.in_callback
    /\ notified' = [notified EXCEPT ![Top.n].result = e]
    /\ stack' = Pop(stack)
    /\ ret' = Raised("row_completed", Top.call, e)
    /\ calls' = [calls EXCEPT ![Top.call].outcome = e]
    /\ _completed_rows' = SubSeq(_completed_rows, 1, Len(_completed_rows) - 1)
    /\ UNCHANGED <<pc, arg_rows, arg_machine, _rows, _machine,
                   _on_row_completed, error, adapter, registered, held>>

\* An observer of the ColorAdapter that raises ends the handler as well: the
\* handler is the observer of the NeedlePositions that raised.
ObserverRaises(e) ==
    /\ pc = "ready" /\ stack # <<>>
    /\ Top.in_callback
    /\ LET running == IF Top.of = "ColorAdapter" THEN Pop(stack) ELSE stack
           after == row_completed_on_exception(running, e)
       IN  /\ notified' = [notified EXCEPT ![Top.n].result = e,
                                           ![running[Len(running)].n].result = e]
           /\ stack' = after.stack
           /\ ret' = IF after.raised = <<>> THEN ret
                     ELSE Raised("row_completed", Top.call, after.raised[1])
           /\ calls' = IF after.raised = <<>> THEN calls
                       ELSE [calls EXCEPT ![Top.call].outcome = after.raised[1]]
    /\ UNCHANGED <<pc, arg_rows, arg_machine, object, error, adapter,
                   registered, held>>

\* row_completed that forgets its observers once they were notified
row_completed_returns_once ==
    /\ pc = "ready" /\ stack # <<>>
    /\ ~Top.in_callback
    /\ Top.of = "NeedlePositions"
    /\ Top.i >= Len(_on_row_completed)
    /\ stack' = Pop(stack)
    /\ ret' = Returned("row_completed", Top.call, <<"None">>)
    /\ calls' = [calls EXCEPT ![Top.call].outcome = "returned"]
    /\ _on_row_completed' = <<>>
    /\ UNCHANGED <<pc, arg_rows, arg_machine, _rows, _machine, _completed_rows,
                   error, notified, adapter,
                   registered, held>>

\* the for statement is exhausted: row_completed returns None
row_completed_returns ==
    /\ pc = "ready" /\ stack # <<>>
    /\ ~Top.in_callback
    /\ Top.of = "NeedlePositions"
    /\ Top.i >= Len(_on_row_completed)
    /\ stack' = Pop(stack)
    /\ ret' = Returned("row_completed", Top.call, <<"None">>)
    /\ calls' = [calls EXCEPT ![Top.call].outcome = "returned"]
    /\ UNCHANGED <<pc, arg_rows, arg_machine, object, error, notified, adapter,
                   registered, held>>

\* The loop of the ColorAdapter's handler is exhausted: the handler returns to
\* the loop of row_completed that called it.
rebroadcast_returns ==
    /\ pc = "ready" /\ stack # <<>>
    /\ ~Top.in_callback
    /\ Top.of = "ColorAdapter"
    /\ Top.i >= Len(adapter._on_row_change)
    /\ stack' = [Pop(stack) EXCEPT ![Len(stack) - 1].in_callback = FALSE]
    /\ notified' = [notified EXCEPT ![stack[Len(stack) - 1].n].result = "returned"]
    /\ UNCHANGED <<pc, arg_rows, arg_machine, object, error, ret, calls, adapter,
                   registered, held>>

----------------------------------------------------------------------------
(* NeedlePositions.on_row_completed *)

\* on_row_completed that leaves out a callable it has already
on_row_completed_unique(callable) ==
    /\ CallerRuns
    /\ _on_row_completed' = IF callable \in Range(_on_row_completed)
                            THEN _on_row_completed
                            ELSE Append(_on_row_completed, callable)
    /\ registered' = Append(registered, callable)
    /\ ret' = Returned("on_row_completed", 0, <<"None">>)
    /\ UNCHANGED <<pc, arg_rows, arg_machine, _rows, _machine, _completed_rows,
                   error, stack, calls, notified, adapter, held>>

on_row_completed(callable) ==
    /\ CallerRuns
    /\ _on_row_completed' = Append(_on_row_completed, callable)
    /\ registered' = Append(registered, callable)
    /\ ret' = Returned("on_row_completed", 0, <<"None">>)
    /\ UNCHANGED <<pc, arg_rows, arg_machine, _rows, _machine, _completed_rows,
                   error, stack, calls, notified, adapter, held>>

----------------------------------------------------------------------------
(* NeedlePositions.get_row, .machine, .completed_row_indices *)

\* An index is a Python value: its type and, for the numeric ones, its value.
\* bool is a subclass of int (True == 1), float is not.
Index(type, v) == [type |-> type, v |-> v]

IndexInputs ==
    {Index("int", v) : v \in -2..MaxCheckRows}
        \cup {Index("float", 0), Index("bool", 1), Index("NoneType", 0)}

None == <<"None">>

Defaults == {None, <<"default">>}

\* isinstance(index, int)
isinstance_int(index) == index.type \in {"int", "bool"}

\* get_row without the test for negative indices: rows[-1] is the last row
get_row_from_end(rows, index, default) ==
    IF ~isinstance_int(index) \/ index.v >= Len(rows) THEN default
    ELSE IF index.v >= 0 THEN rows[index.v + 1]
    ELSE IF -index.v <= Len(rows) THEN rows[Len(rows) + index.v + 1]
    ELSE <<"IndexError">>

get_row(rows, index, default) ==
    IF ~isinstance_int(index) \/ index.v < 0 \/ index.v >= Len(rows)
    THEN default
    ELSE rows[index.v + 1]

GetRow(index, default) ==
    /\ CallerRuns
    /\ ret' = Returned("get_row", 0, <<index, default, get_row(_rows, index, default)>>)
    /\ UNCHANGED <<pc, arg_rows, arg_machine, object, error, stack, calls,
                   notified, adapter,
                   registered, held>>

GetMachine ==
    /\ CallerRuns
    /\ ret' = Returned("machine", 0, _machine)
    /\ UNCHANGED <<pc, arg_rows, arg_machine, object, error, stack, calls,
                   notified, adapter,
                   registered, held>>

GetCompletedRowIndices ==
    /\ CallerRuns
    /\ ret' = Returned("completed_row_indices", 0,
                       completed_row_indices(_completed_rows))
    /\ UNCHANGED <<pc, arg_rows, arg_machine, object, error, stack, calls,
                   notified, adapter,
                   registered, held>>

----------------------------------------------------------------------------
(* A caller that keeps the list completed_row_indices returned *)

\* completed_row_indices that hands out the log itself:
\* return self._completed_rows
returned_list_itself(completed_rows) == [kind |-> "same", value |-> <<>>]

\* return self._completed_rows.copy(): the list object the caller gets is a
\* new one ("copy") that holds the items of the log; "same" would be the
\* object self._completed_rows itself.
returned_list(completed_rows) ==
    [kind |-> "copy", value |-> completed_row_indices(completed_rows)]

\* The items of the list the caller keeps.
HeldItems == IF held.kind = "same" THEN _completed_rows ELSE held.value

\* held = needle_positions.completed_row_indices
KeepCompletedRowIndices ==
    /\ CallerRuns
    /\ held' = returned_list(_completed_rows)
    /\ ret' = Returned("completed_row_indices", 0,
                       completed_row_indices(_completed_rows))
    /\ UNCHANGED <<pc, arg_rows, arg_machine, object, error, stack, calls,
                   notified, adapter, registered>>

\* held.append(item), by the caller that keeps the list
AppendToHeld(item) ==
    /\ CallerRuns
    /\ held.kind # "none"
    /\ IF held.kind = "same"
       THEN /\ _completed_rows' = Append(_completed_rows, item)
            /\ held' = held
       ELSE /\ _completed_rows' = _completed_rows
            /\ held' = [held EXCEPT !.value = Append(@, item)]
    /\ ret' = Returned("list.append", 0, None)
    /\ UNCHANGED <<pc, arg_rows, arg_machine, _rows, _machine,
                   _on_row_completed, error, stack, calls, notified, adapter,
                   registered>>

----------------------------------------------------------------------------
(* ColorAdapter: the source declares it without a body; the behaviour is    *)
(* the one its documentation and the design describe.                       *)

Shape(rows) == [i \in 1..Len(rows) |-> Len(rows[i])]

ColorRow(w) == [j \in 1..w |-> IF j % 2 = 1 THEN "red" ELSE "blue"]

\* Color rows of the shapes of the session patterns, and one with rows of a
\* single color each.
ColorInputs ==
    {[i \in 1..n |-> ColorRow(2)] : n \in {0, MaxRows - 1, MaxRows}}
        \cup {[i \in 1..MaxRows |-> ColorRow(1)]}

\* ColorAdapter.__init__ that takes as many color rows as there are needle rows
\* and drops the rest
ColorAdapter_init_truncating(color_rows) ==
    /\ CallerRuns
    /\ ~adapter.built
    /\ IF Len(color_rows) >= Len(_rows)
       THEN /\ adapter' = [built |-> TRUE,
                           color_rows |-> SubSeq(color_rows, 1, Len(_rows)),
                           _on_row_change |-> <<>>]
            /\ _on_row_completed' = Append(_on_row_completed, AdapterHandler)
            /\ registered' = Append(registered, AdapterHandler)
            /\ ret' = Returned("ColorAdapter", 0, <<color_rows>>)
       ELSE /\ adapter' = adapter
            /\ _on_row_completed' = _on_row_completed
            /\ registered' = registered
            /\ ret' = [Raised("ColorAdapter", 0, "ValueError")
                          EXCEPT !.value = <<"ValueError", color_rows>>]
    /\ UNCHANGED <<pc, arg_rows, arg_machine, _rows, _machine, _completed_rows,
                   error, stack, calls, notified, held>>

\* The needle positions are the ones new_needle_positions returned.  A shape
\* that differs raises the ValueError the docstring announces.
ColorAdapter_init(color_rows) ==
    /\ CallerRuns
    /\ ~adapter.built
    /\ IF Shape(color_rows) = Shape(_rows)
       THEN /\ adapter' = [built |-> TRUE, color_rows |-> color_rows,
                           _on_row_change |-> <<>>]
            /\ _on_row_completed' = Append(_on_row_completed, AdapterHandler)
            /\ registered' = Append(registered, AdapterHandler)
            /\ ret' = Returned("ColorAdapter", 0, <<color_rows>>)
       ELSE /\ adapter' = adapter
            /\ _on_row_completed' = _on_row_completed
            /\ registered' = registered
            /\ ret' = [Raised("ColorAdapter", 0, "ValueError")
                          EXCEPT !.value = <<"ValueError", color_rows>>]
    /\ UNCHANGED <<pc, arg_rows, arg_machine, _rows, _machine, _completed_rows,
                   error, stack, calls, notified, held>>

\* ColorAdapter.on_row_change(callable)
on_row_change(callable) ==
    /\ CallerRuns
    /\ adapter.built
    /\ adapter' = [adapter EXCEPT !._on_row_change = Append(@, callable)]
    /\ ret' = Returned("on_row_change", Caller.call, None)
    /\ UNCHANGED <<pc, arg_rows, arg_machine, object, error, stack, calls,
                   notified, registered, held>>

\* progress that indexes the rows the Python way: -1 marks the last row
progress_from_end(color_rows, completed) ==
    [i \in 1..Len(color_rows) |->
        [j \in 1..Len(color_rows[i]) |->
            (i - 1) \in Range(completed)
                \/ (i - 1 - Len(color_rows)) \in Range(completed)]]

\* row i, cell j is true iff row i is among the completed row indices
progress(color_rows, completed) ==
    [i \in 1..Len(color_rows) |->
        [j \in 1..Len(color_rows[i]) |-> (i - 1) \in Range(completed)]]

GetProgress ==
    /\ CallerRuns
    /\ adapter.built
    /\ ret' = Returned("progress", 0,
                  progress(adapter.color_rows, completed_row_indices(_completed_rows)))
    /\ UNCHANGED <<pc, arg_rows, arg_machine, object, error, stack, calls,
                   notified, adapter,
                   registered, held>>

----------------------------------------------------------------------------
(* The specifications *)

NeedleRow(i, n) == [j \in 1..n |-> IF (i + j) % 2 = 0 THEN "A" ELSE "B"]

\* Patterns for the scenario machine: the empty one, one of MaxRows rows, one
\* with a row less (so that the row index MaxRows - 1 is the first one outside
\* it), one with a row that is too long and one with a symbol the machine
\* does not know.
SessionPatterns ==
    {[i \in 1..n |-> NeedleRow(i, 2)] : n \in {0, MaxRows - 1, MaxRows}}
        \cup {<<NeedleRow(1, 2), NeedleRow(2, 3)>>, <<<<"A", "C">>, <<"B", "A">>>>}

InitWith(patterns, machines) ==
    /\ pc = "new"
    /\ arg_rows \in patterns
    /\ arg_machine \in machines
    /\ _rows = <<>>
    /\ _machine = NoMachine
    /\ _completed_rows = <<>>
    /\ _on_row_completed = <<>>
    /\ error = NoError
    /\ stack = <<>>
    /\ ret = NoRet
    /\ calls = <<>>
    /\ notified = <<>>
    /\ adapter = NoAdapter
    /\ registered = <<>>
    /\ held = NoSnapshot

\* The steps of a running row_completed call and of the observer it called.
Dispatch(exceptions) ==
    \/ NotifyObserver
    \/ ObserverReturns
    \/ \E e \in exceptions : ObserverRaises(e)
    \/ row_completed_returns

\* A session: construction, completions of rows inside and outside the
\* pattern, a few observers, the color adapter and the reads.  The adapter is
\* built together with the NeedlePositions, before a row is completed or an
\* observer is registered, and the properties are read by the holder of the
\* object, between the row_completed calls.
Init == InitWith(SessionPatterns, {ScenarioMachine})

Next ==
    \/ NewNeedlePositions
    \/ \E index \in RowIndices :
            Len(calls) < MaxCalls /\ row_completed(index)
    \/ Dispatch({"E1"})
    \/ rebroadcast_returns
    \/ \E callable \in Registrable(_on_row_completed) :
            Len(Watchers(_on_row_completed)) < MaxWatchers
                /\ on_row_completed(callable)
    \/ \E index \in {Index("int", 0), Index("int", 99)} :
            AtTopLevel /\ GetRow(index, None)
    \/ AtTopLevel /\ GetMachine
    \/ AtTopLevel /\ GetCompletedRowIndices
    \/ \E color_rows \in ColorInputs :
            /\ AtTopLevel
            /\ calls = <<>> /\ _on_row_completed = <<>>
            /\ ColorAdapter_init(color_rows)
    \/ AtTopLevel /\ GetProgress

Spec == Init /\ [][Next]_vars

\* The observer protocol: one pattern, up to MaxObservers registrations made
\* by the holder or from inside an observer, nested row_completed calls.
InitDispatch ==
    InitWith({<<NeedleRow(1, 2), NeedleRow(2, 2)>>}, {ScenarioMachine})

NextDispatch ==
    \/ NewNeedlePositions
    \/ \E index \in {0, 99} :
            Len(calls) < MaxCalls /\ row_completed(index)
    \/ Dispatch({"E1"})
    \/ \E callable \in Registrable(_on_row_completed) :
            Len(_on_row_completed) < MaxObservers /\ on_row_completed(callable)

SpecDispatch == InitDispatch /\ [][NextDispatch]_vars

\* Registration, dispatch and the exceptions of observers: a pattern of one
\* row, which the first row_completed(0) completes, the same observers.
InitRegister == InitWith({<<NeedleRow(1, 2)>>}, {ScenarioMachine})

NextRegister ==
    \/ NewNeedlePositions
    \/ Len(calls) < MaxCalls /\ row_completed(0)
    \/ Dispatch(Exceptions)
    \/ \E callable \in Registrable(_on_row_completed) :
            Len(_on_row_completed) < MaxObservers /\ on_row_completed(callable)

SpecRegister == InitRegister /\ [][NextRegister]_vars

\* The ColorAdapter as an observer: the holder builds it on the pattern and
\* registers observers with it and with the NeedlePositions, in any order;
\* the observers of both may complete rows and may raise.  One row index is
\* reported, one that no other number of the run equals.
Colors(rows) == [i \in 1..Len(rows) |-> ColorRow(Len(rows[i]))]

NextAdapter ==
    \/ NewNeedlePositions
    \/ Len(calls) < MaxCalls /\ row_completed(99)
    \/ Dispatch({"E1"})
    \/ rebroadcast_returns
    \/ \E callable \in Registrable(_on_row_completed) :
            /\ AtTopLevel
            /\ Len(Watchers(_on_row_completed)) < MaxWatchers
            /\ on_row_completed(callable)
    \/ AtTopLevel /\ ColorAdapter_init(Colors(_rows))
    \/ \E callable \in Registrable(adapter._on_row_change) :
            /\ AtTopLevel
            /\ Len(adapter._on_row_change) < MaxListeners
            /\ on_row_change(callable)

SpecAdapter == InitDispatch /\ [][NextAdapter]_vars

\* A caller, the holder or an observer, that keeps the list it read from
\* completed_row_indices, appends to it and reads again, while rows are
\* completed.
NextSnapshot ==
    \/ NewNeedlePositions
    \/ \E index \in {0, 99} :
            Len(calls) < MaxCalls /\ row_completed(index)
    \/ Dispatch({"E1"})
    \/ \E callable \in Registrable(_on_row_completed) :
            Len(Watchers(_on_row_completed)) < MaxWatchers
                /\ on_row_completed(callable)
    \/ KeepCompletedRowIndices
    \/ GetCompletedRowIndices
    \/ Len(HeldItems) < MaxHeld /\ AppendToHeld(7)

SpecSnapshot == InitDispatch /\ [][NextSnapshot]_vars

\* The constructor and get_row, on every pattern of up to MaxCheckRows rows of up
\* to three symbols, for machines of one and of two needles.
InitCheck == InitWith(AllPatterns, {MachineProfile(1), MachineProfile(2)})

NextCheck ==
    \/ NewNeedlePositions
    \/ \E index \in IndexInputs, default \in Defaults : GetRow(index, default)

SpecCheck == InitCheck /\ [][NextCheck]_vars

----------------------------------------------------------------------------
(* The properties *)

Indices(history) == [c \in 1..Len(history) |-> history[c].index]

\* The invocations made for call c, in the order they were made.
InvocationsOf(c) ==
    SelectSeq(notified, LAMBDA n : n.call = c /\ n.by = "NeedlePositions")

\* The invocations the handler of the ColorAdapter made during call c.
RebroadcastsOf(c) ==
    SelectSeq(notified, LAMBDA n : n.call = c /\ n.by = "ColorAdapter")

\* The place an invocation has among the invocations of its call: 1 for the
\* observer fetched first.
Rank(p) == notified[p].rank

Observers(invocations) ==
    [p \in 1..Len(invocations) |-> invocations[p].observer]

OutsidePattern(index) == index \notin 0..(Len(_rows) - 1)

\* C1: the completion log is exactly the sequence of the arguments of the
\* row_completed calls made so far, in call order, repeats and indices outside
\* the pattern included; and every step leaves the old log a prefix of the new.
C1_LogFidelity ==
    /\ [](pc = "ready" => _completed_rows = Indices(calls))
    /\ [][IsPrefix(_completed_rows, _completed_rows')]_vars

C1_Witness ==
    /\ Len(_completed_rows) = 2
    /\ _completed_rows[1] = _completed_rows[2]
    /\ OutsidePattern(_completed_rows[1])
    /\ Len(_rows) = 3

\* C2: when a row_completed call has returned, the observers invoked for it
\* are the registered observers, in registration order, each was given the
\* index of the call, and each has finished.
C2_ObserverOrder ==
    (ret.op = "row_completed" /\ ret.outcome = "returned") =>
        LET invocations == InvocationsOf(ret.call)
        IN  /\ Observers(invocations) = _on_row_completed
            /\ \A p \in 1..Len(invocations) :
                    /\ invocations[p].argument = calls[ret.call].index
                    /\ invocations[p].result = "returned"

C2_Witness ==
    /\ ret.op = "row_completed" /\ ret.outcome = "returned"
    /\ _on_row_completed = <<1, 2, 3>>
    /\ Observers(InvocationsOf(ret.call)) = <<1, 2, 3>>
    /\ \A p \in 1..3 : notified[p].argument = 99

WellFormed(rows, machine) ==
    \A r \in 1..Len(rows) :
        /\ Len(rows[r]) = machine.number_of_needles
        /\ \A c \in 1..Len(rows[r]) : rows[r][c] \in Range(machine.needle_positions)

\* C3: the constructor succeeds exactly when every row has number_of_needles
\* cells and every cell is one of the machine's needle positions; otherwise it
\* raises, and the rows of every object that exists are well formed.
C3_ShapeInvariant ==
    /\ pc # "new" => (pc = "ready" <=> WellFormed(arg_rows, arg_machine))
    /\ pc = "ready" => error = NoError /\ WellFormed(_rows, _machine)
    /\ pc = "failed" => error.type = "ValueError"

C3_Witness ==
    /\ pc = "failed"
    /\ Len(arg_rows) = 2
    /\ \A r \in 1..2 : Len(arg_rows[r]) = arg_machine.number_of_needles
    /\ WellFormed(SubSeq(arg_rows, 1, 1), arg_machine)

LengthFailure == error.template = _ROW_LENGTH_ERROR_MESSAGE

SymbolFailure == error.template = _NEEDLE_POSITION_ERROR_MESSAGE

\* C4 as stated: a row of the wrong length fails with a ShapeError and a cell
\* that is no needle position with a SymbolError, two kinds of error.
C4_TwoErrorKinds ==
    pc = "failed" =>
        /\ LengthFailure => error.type = "ShapeError"
        /\ SymbolFailure => error.type = "SymbolError"

\* C4, amended: both failures are raised as a ValueError and differ in the
\* message.  A pattern whose only fault is a row length gets the row length
\* message with the row index, the length found and the length expected; a
\* pattern whose only fault is a symbol gets the needle position message
\* with the row index, the cell index, the value found there and all the
\* needle positions of the machine.
C4_ValueErrorMessages ==
    pc = "failed" =>
        /\ error.type = "ValueError"
        /\ LengthFailure \/ SymbolFailure
        /\ LengthFailure =>
              /\ Len(error.args) = 3
              /\ error.args[1] \in 0..(Len(arg_rows) - 1)
              /\ error.args[2] = Len(arg_rows[error.args[1] + 1])
              /\ error.args[3] = arg_machine.number_of_needles
              /\ error.args[2] # error.args[3]
        /\ SymbolFailure =>
              /\ Len(error.args) = 4
              /\ error.args[1] \in 0..(Len(arg_rows) - 1)
              /\ error.args[2] \in 0..(Len(arg_rows[error.args[1] + 1]) - 1)
              /\ error.args[3] = arg_rows[error.args[1] + 1][error.args[2] + 1]
              /\ error.args[3] \notin Range(arg_machine.needle_positions)
              /\ error.args[4] = arg_machine.needle_positions
        /\ (\A r \in 1..Len(arg_rows) :
                Len(arg_rows[r]) = arg_machine.number_of_needles) => SymbolFailure
        /\ (\A r \in 1..Len(arg_rows) : \A c \in 1..Len(arg_rows[r]) :
                arg_rows[r][c] \in Range(arg_machine.needle_positions)) => LengthFailure

C4_Witness ==
    /\ pc = "failed"
    /\ arg_machine = ScenarioMachine
    /\ arg_rows = <<<<"A", "C">>, <<"B", "A">>>>
    /\ error = ValueError(_NEEDLE_POSITION_ERROR_MESSAGE, <<0, 1, "C", <<"A", "B">>>>)

\* C5: whenever an observer is invoked for a call, the log it reads already
\* holds the index of that call, at the position of the call.
C5_RecordedBeforeNotified ==
    \A p \in 1..Len(notified) :
        /\ Len(notified[p].seen) >= notified[p].call
        /\ notified[p].seen[notified[p].call] = calls[notified[p].call].index
        /\ notified[p].argument = calls[notified[p].call].index

C5_Witness ==
    /\ stack # <<>>
    /\ Len(notified) = 1
    /\ notified[1].result = "running"
    /\ notified[1].argument = 99
    /\ notified[1].seen = <<0, 99>>

\* C6: when an observer raised an exception during the dispatch of a call, the
\* call has ended by raising that same exception to its caller, and no frame
\* of the call is left.
C6_ObserverExceptionPropagates ==
    \A p \in 1..Len(notified) :
        notified[p].result \in Exceptions =>
            /\ calls[notified[p].call].outcome = notified[p].result
            /\ \A d \in 1..Len(stack) : stack[d].call # notified[p].call

C6_Witness ==
    /\ stack = <<>>
    /\ Len(notified) = 2
    /\ notified[2].result = "E2"
    /\ ret = Raised("row_completed", notified[2].call, "E2")

\* C7: get_row returns the row at the index when the index is an integer
\* from 0 to the number of rows - 1, and the given default for a negative
\* index, an index of the number of rows or more, and an index that is no
\* integer.  (True is the integer 1 in Python.)
C7_GetRow ==
    ret.op = "get_row" =>
        LET index == ret.value[1]
            default == ret.value[2]
            result == ret.value[3]
        IN  IF index.type \in {"int", "bool"} /\ 0 <= index.v /\ index.v < Len(_rows)
            THEN result = _rows[index.v + 1]
            ELSE result = default

C7_Witness ==
    /\ ret.op = "get_row"
    /\ Len(_rows) = 2
    /\ ret.value[1] = Index("int", -1)
    /\ ret.value[2] = <<"default">>
    /\ ret.value[3] = <<"default">>

\* C8: once the object exists its rows and its machine never change; a step
\* that changes the log is the start of a row_completed call and changes
\* neither the rows nor the observer list; a step that changes the
\* observer list is an on_row_completed call, made by a caller or by the
\* ColorAdapter that subscribes, which appends one observer and changes
\* neither the rows nor the log; the reads change nothing.
C8_Frame ==
    [][pc = "ready" =>
        /\ _rows' = _rows
        /\ _machine' = _machine
        /\ _completed_rows' # _completed_rows =>
              /\ Len(calls') = Len(calls) + 1
              /\ _on_row_completed' = _on_row_completed
        /\ _on_row_completed' # _on_row_completed =>
              /\ ret'.op \in {"on_row_completed", "ColorAdapter"}
              /\ \E callable \in Registrable(_on_row_completed) \cup {AdapterHandler} :
                    _on_row_completed' = Append(_on_row_completed, callable)
              /\ _completed_rows' = _completed_rows
        /\ ret'.op \in {"get_row", "machine", "completed_row_indices", "progress"}
              => object' = object
      ]_vars

C8_Witness ==
    /\ ret.op = "get_row"
    /\ Len(_completed_rows) = 2
    /\ Len(_on_row_completed) = 1
    /\ Len(notified) > 0
    /\ _rows = arg_rows
    /\ Len(_rows) = 3

C14_RaiseCutsDispatch ==
    \A p \in 1..Len(notified) :
        notified[p].result \in Exceptions =>
            LET c == notified[p].call
                invocations == InvocationsOf(c)
                m == Len(invocations)
            IN  /\ Len(_completed_rows) >= c
                /\ _completed_rows[c] = calls[c].index
                /\ invocations[m] = notified[p]
                /\ m <= Len(_on_row_completed)
                /\ Observers(invocations) = SubSeq(_on_row_completed, 1, m)
                /\ \A q \in 1..(m - 1) : invocations[q].result = "returned"

C14_Witness ==
    /\ stack = <<>>
    /\ Len(_on_row_completed) = 3
    /\ ret.op = "row_completed" /\ ret.outcome = "raised"
    /\ Len(InvocationsOf(ret.call)) = 2
    /\ InvocationsOf(ret.call)[1].result = "returned"
    /\ InvocationsOf(ret.call)[2].result \in Exceptions
    /\ _completed_rows[ret.call] = calls[ret.call].index

\* C15: when an observer, called for row_completed(k), calls row_completed(j),
\* the log holds k before j, and the dispatch of j is through before the
\* dispatch of k goes on: an observer that follows the calling one in the list
\* and receives both receives j before k.  (The dispatch of j does not reach
\* an observer behind one that raised, or one registered after it ended.)
C15_NestedDispatchFirst ==
    \A d \in 1..Len(calls) :
        LET c == calls[d].parent
        IN  (c # 0 /\ calls[d].outcome # "past") =>
                /\ c < d /\ Len(_completed_rows) >= d
                /\ _completed_rows[c] = calls[c].index
                /\ _completed_rows[d] = calls[d].index
                /\ \A px \in 1..Len(notified) :
                       (notified[px].call = c /\ Rank(px) > calls[d].at) =>
                           /\ calls[d].outcome # "running"
                           /\ \A py \in 1..Len(notified) :
                                  (notified[py].call = d /\ Rank(py) = Rank(px))
                                      => py < px

C15_Witness ==
    \E px, py \in 1..Len(notified) :
        LET c == notified[px].call
            d == notified[py].call
        IN  /\ calls[d].parent = c
            /\ calls[c].index # calls[d].index
            /\ _completed_rows[c] = calls[c].index
            /\ _completed_rows[d] = calls[d].index
            /\ c < d
            /\ Rank(px) = Rank(py) /\ Rank(px) > calls[d].at
            /\ py < px

\* What C16 and its amendment share: the observers invoked for a call are,
\* in order, the callables on_row_completed was called with, one invocation
\* for each registration and so two for a callable registered twice; all of
\* them once the call has returned, the first of them while it runs or when
\* an observer has raised.
OncePerRegistration ==
    /\ \A c \in 1..Len(calls) :
           calls[c].outcome # "past" =>
               IsPrefix(Observers(InvocationsOf(c)), registered)
    /\ (ret.op = "row_completed" /\ ret.outcome = "returned") =>
           Observers(InvocationsOf(ret.call)) = registered

\* C16 as stated: notifications are neither replayed nor left out, and an
\* observer is not invoked for a completion that was logged before it was
\* registered: when the call that ended last is an on_row_completed call, it
\* was made by an observer of the running row_completed call (every
\* row_completed call resets the record of the last call when it starts), and
\* the observer it registered, the last of the list, is not invoked for the
\* running call.
C16_NotForLoggedBefore ==
    /\ []OncePerRegistration
    /\ [][(Len(notified') = Len(notified) + 1
              /\ ret.op = "on_row_completed") =>
          Len(InvocationsOf(notified'[Len(notified')].call)) + 1
              # Len(registered)]_vars

\* C16, amended: for a row_completed call that returns, every registration
\* made before the call or by an observer during its dispatch is invoked
\* exactly once, a callable registered twice twice; an observer is only ever
\* invoked by the loop of a call that is still running, as the next one of
\* the list, so a call that has ended is never replayed to an observer
\* registered later.
C16_NoReplayNoDedup ==
    /\ []OncePerRegistration
    /\ [][Len(notified') = Len(notified) + 1 =>
            IF stack = <<>> THEN FALSE
            ELSE LET new == notified'[Len(notified')]
                 IN  /\ new.call = Top.call
                     /\ calls[new.call].outcome = "running"
                     /\ new.observer = registered[Top.i + 1]
                     /\ Len(InvocationsOf(new.call)) = Top.i]_vars

C16_Witness ==
    /\ ret.op = "row_completed" /\ ret.outcome = "returned"
    /\ registered = <<1, 1, 2>>
    /\ Observers(InvocationsOf(ret.call)) = <<1, 1, 2>>
    /\ calls[ret.call].parent = 0
    /\ Len(notified) = 3

\* C17: the list completed_row_indices returns is the caller's own: when the
\* caller appends to it, the log and so every later read stay as they were;
\* and when a row is completed, a list read before does not gain the index.
C17_Snapshot ==
    [][held.kind # "none" =>
          /\ (ret'.op = "list.append"
                 /\ <<held, _completed_rows>>' # <<held, _completed_rows>>) =>
                 /\ HeldItems' = Append(HeldItems, 7)
                 /\ _completed_rows' = _completed_rows
                 /\ completed_row_indices(_completed_rows')
                        = completed_row_indices(_completed_rows)
          /\ Len(calls') > Len(calls) =>
                 /\ _completed_rows' # _completed_rows
                 /\ HeldItems' = HeldItems]_vars

C17_Witness ==
    /\ held.kind # "none"
    /\ HeldItems = <<0, 7>>
    /\ _completed_rows = <<0, 99>>
    /\ ret = Returned("completed_row_indices", 0, <<0, 99>>)

Least(S) == CHOOSE n \in S : \A m \in S : n <= m

\* The rows of the pattern that are not as the machine wants them, and the
\* cells of a row that are no needle position of the machine, 0-based.
FaultyRows ==
    {r \in 0..(Len(arg_rows) - 1) :
        ~WellFormed(<<arg_rows[r + 1]>>, arg_machine)}

FaultyCells(r) ==
    {c \in 0..(Len(arg_rows[r + 1]) - 1) :
        arg_rows[r + 1][c + 1] \notin Range(arg_machine.needle_positions)}

\* C18: a failed construction reports the first faulty row of the pattern,
\* whatever is wrong with the rows behind it; when that row has the wrong
\* length, its length, whatever its cells are; otherwise the first of its
\* cells that is no needle position.
C18_FirstViolation ==
    pc = "failed" =>
        LET r == Least(FaultyRows)
        IN  /\ FaultyRows # {}
            /\ error.args[1] = r
            /\ IF Len(arg_rows[r + 1]) # arg_machine.number_of_needles
               THEN LengthFailure
               ELSE /\ SymbolFailure
                    /\ FaultyCells(r) # {}
                    /\ error.args[2] = Least(FaultyCells(r))

C18_Witness ==
    /\ pc = "failed"
    /\ arg_machine = ScenarioMachine
    /\ arg_rows = <<<<"C", "C">>, <<"C">>>>
    /\ error = ValueError(_NEEDLE_POSITION_ERROR_MESSAGE, <<0, 0, "C", <<"A", "B">>>>)

RebroadcastAfterRecord ==
    \A p \in 1..Len(notified) :
        notified[p].by = "ColorAdapter" =>
            /\ notified[p].argument = calls[notified[p].call].index
            /\ Len(notified[p].seen) >= notified[p].call
            /\ notified[p].seen[notified[p].call] = notified[p].argument

====
